---- MODULE Spec2Model ----
(***************************************************************************)
(* Tile retrieval and mosaic assembly of apps/pass-image-api/src/tiles.rs: *)
(* fetch_tile (one tile over HTTP), fetch_tile_box (the tiles of a         *)
(* rectangle, at most 10 requests at a time) and fetch_image (mosaic,      *)
(* centred crop, PNG).                                                     *)
(*                                                                         *)
(* Tile-space coordinates are f32 in the source.  Here a coordinate is an  *)
(* integer number of 1/Frac tiles, so floor, ceil and the float-to-u32     *)
(* casts are exact.                                                        *)
(***************************************************************************)
EXTENDS Integers, Sequences, FiniteSets, TLC

VARIABLES
    tileset,          \* TileSet of the call
    tile_box,         \* the ConstrainedTileBox handed to fetch_image
    upstream,         \* the tile server of this run: the responses it may
                      \* give and how many requests it fails at most
    pc,               \* position of the fetch_image call
    tile_coords,      \* fetch_tile_box: the Vec of enumerated tiles
    next_idx,         \* tiles already pulled from the stream iterator
    in_flight,        \* tiles whose fetch_tile future is in the buffer
    fetch_log,        \* the GET requests sent so far, in order (URLs)
    answered,         \* tile -> the response its request received
    tile_fetches,     \* the collected results: Ok entries, Err entries in order
    box_result,       \* what fetch_tile_box returned
    full_image,       \* fetch_image: the mosaic before cropping
    image_result,     \* how fetch_image ended
    calls             \* how the earlier calls on this box ended, oldest first

vars == << tileset, tile_box, upstream, pc, tile_coords, next_idx, in_flight,
           fetch_log, answered, tile_fetches, box_result, full_image,
           image_result, calls >>

----------------------------------------------------------------------------
(* Bounds of the model *)

\* sub-tile resolution: a coordinate q stands for q / Frac tiles
Frac == 2
\* calls of fetch_image made one after the other on one box
MaxCalls == 2
\* largest tile index of the corners of the small rectangles
MaxTile == 1
\* most tiles a small rectangle covers
MaxBatch == 4
\* bottom-right row of the long rectangle (rows 0..BigSpan, one column)
BigSpan == 10
\* failed tile fetches per batch on the small rectangles
MaxFailures == 2
\* failed tile fetches per batch on the long rectangle
LongFailures == 1
\* largest tile index of the corners in the runs that vary the crop
MaxImageTile == 2

----------------------------------------------------------------------------
(* Program constants *)

\* .buffer_unordered(10)
ConcurrencyLimit == 10
\* let tile_size = 256;
tile_size == 256

None == "none"

----------------------------------------------------------------------------
(* Numeric conversions *)

(* A u32 is kept as its 32-bit pattern read in two's complement: a value    *)
(* below 2^31 is itself, and a negative n stands for the u32 value 2^32 + n *)
(* (what a wrapped subtraction leaves).  All other quantities of the model  *)
(* are far below 2^31.                                                      *)

\* a < b on u32
u32_lt(a, b) == IF (a < 0) = (b < 0) THEN a < b ELSE b < 0

\* cmp::min on u32
u32_min(a, b) == IF u32_lt(a, b) THEN a ELSE b

\* u32 subtraction when it does not panic: modulo 2^32
wrapping_sub(a, b) == a - b

\* f32 -> u32 cast (`as u32`) of an integral value: negative values saturate
\* to 0 (the upper saturation is out of the model's range)
as_u32(v) == IF v < 0 THEN 0 ELSE v

\* f32::floor / f32::ceil of the coordinate q / Frac, in whole tiles
floor(q) == q \div Frac
ceil(q) == -((-q) \div Frac)

\* (tiles * 256.0) as u32 for a tile-space length of q / Frac tiles:
\* truncation toward zero, negative values saturate to 0
px_as_u32(q) == IF q < 0 THEN 0 ELSE as_u32((q * 256) \div Frac)

----------------------------------------------------------------------------
(* TileSet and the tile URL *)

TileSets == {"Osm", "Swisstopo"}

\* TileSet::url_pattern, as the literal pieces around the placeholders
url_pattern(t) ==
    IF t = "Osm"
    THEN << "https://tile.openstreetmap.org/", "{z}", "/", "{x}", "/", "{y}", ".png" >>
    ELSE << "https://wmts.geo.admin.ch/1.0.0/ch.swisstopo.landeskarte-farbe-10/default/current/3857/",
            "{z}", "/", "{x}", "/", "{y}", ".png" >>

\* str::replace of one placeholder
replace(s, from, to) == [i \in DOMAIN s |-> IF s[i] = from THEN to ELSE s[i]]

\* tile_url with column and row exchanged
tile_url_swapped(t, x, y, z) ==
    replace(replace(replace(url_pattern(t), "{z}", ToString(z)),
                    "{x}", ToString(y)),
            "{y}", ToString(x))

\* the URL fetch_tile requests
tile_url(t, x, y, z) ==
    replace(replace(replace(url_pattern(t), "{z}", ToString(z)),
                    "{x}", ToString(x)),
            "{y}", ToString(y))

----------------------------------------------------------------------------
(* fetch_tile *)

\* What the tile server (and the network) may do with one GET request
Statuses == {200, 204, 404}
ContentTypes == {"image/png", "image/png; charset=utf-8", "text/html", None}
\* bodies: a 256 x 256 PNG, a 512 x 512 PNG, bytes that are no image, and a
\* body that cannot be read to its end
Bodies == {"png256", "png512", "garbage", "unreadable"}

TransportFailure ==
    [sent |-> FALSE, status |-> 0, content_type |-> None, body |-> None]

AllResponses ==
    {TransportFailure} \cup
    [sent : {TRUE}, status : Statuses, content_type : ContentTypes, body : Bodies]

GoodResponse ==
    [sent |-> TRUE, status |-> 200, content_type |-> "image/png", body |-> "png256"]
NotFound ==
    [sent |-> TRUE, status |-> 404, content_type |-> "text/html", body |-> "garbage"]
HtmlPage ==
    [sent |-> TRUE, status |-> 200, content_type |-> "text/html", body |-> "garbage"]

Ok(v) == [ok |-> TRUE, val |-> v]
Err(e) == [ok |-> FALSE, err |-> e]

\* anyhow::anyhow!(...): the message's fixed text, its URL and what follows it
Error(msg, url, detail) == [msg |-> msg, url |-> url, detail |-> detail]

\* .headers().get(CONTENT_TYPE).and_then(|val| val.to_str().ok()).unwrap_or("")
header_content_type(resp) ==
    IF resp.content_type = None THEN "" ELSE resp.content_type

\* fetch_tile without the content-type check
fetch_tile_any_type(t, x, y, z, resp) ==
    LET url == tile_url(t, x, y, z)
    IN  IF ~resp.sent
        THEN Err(Error("Failed to send request to", url, "send error"))
        ELSE IF resp.status # 200
        THEN Err(Error("Request failed with status", url, ToString(resp.status)))
        ELSE IF resp.body = "unreadable"
        THEN Err(Error("Failed to read response body from", url, "payload error"))
        ELSE Ok([from |-> url, enc |-> resp.body])

\* fetch_tile with the content type checked before the status
fetch_tile_type_first(t, x, y, z, resp) ==
    LET url == tile_url(t, x, y, z)
        content_type == header_content_type(resp)
    IN  IF ~resp.sent
        THEN Err(Error("Failed to send request to", url, "send error"))
        ELSE IF content_type # "image/png"
        THEN Err(Error("Unexpected content type from", url, content_type))
        ELSE IF resp.status # 200
        THEN Err(Error("Request failed with status", url, ToString(resp.status)))
        ELSE IF resp.body = "unreadable"
        THEN Err(Error("Failed to read response body from", url, "payload error"))
        ELSE Ok([from |-> url, enc |-> resp.body])

\* fetch_tile(t, x, y, z, cx), given what the request met
fetch_tile(t, x, y, z, resp) ==
    LET url == tile_url(t, x, y, z)
        content_type == header_content_type(resp)
    IN  IF ~resp.sent
        THEN Err(Error("Failed to send request to", url, "send error"))
        ELSE IF resp.status # 200
        THEN Err(Error("Request failed with status", url, ToString(resp.status)))
        ELSE IF content_type # "image/png"
        THEN Err(Error("Unexpected content type from", url, content_type))
        ELSE IF resp.body = "unreadable"
        THEN Err(Error("Failed to read response body from", url, "payload error"))
        ELSE Ok([from |-> url, enc |-> resp.body])

----------------------------------------------------------------------------
(* fetch_tile_box *)

\* last_col rounded down instead of up
last_col_floor(br) == as_u32(floor(br.x))

\* the first and last column / row of the two nested `for` ranges
first_col(tl) == as_u32(floor(tl.x))
last_col(br) == as_u32(ceil(br.x))
first_row(tl) == as_u32(floor(tl.y))
last_row(br) == as_u32(ceil(br.y))

\* a..b, the end excluded
range_len_exclusive(a, b) == IF a > b THEN 0 ELSE b - a

\* a..=b has b - a + 1 elements, none when a > b
range_len(a, b) == IF a > b THEN 0 ELSE b - a + 1

\* the Vec tile_coords after the loops: x outer, y inner, zoom of top_left
enumerate_tiles(tl, br) ==
    LET nx == range_len(first_col(tl), last_col(br))
        ny == range_len(first_row(tl), last_row(br))
    IN  [i \in 1..(nx * ny) |->
            << first_col(tl) + ((i - 1) \div ny),
               first_row(tl) + ((i - 1) % ny),
               tl.z >>]

\* the buffer is filled once and never again
can_dispatch_first_fill(queued, running) ==
    queued > 0 /\ running < ConcurrencyLimit /\ next_idx < ConcurrencyLimit

\* every future of the stream is started at once
can_dispatch_unbounded(queued, running) == queued > 0

\* BufferUnordered::poll_next pulls the next future from the stream while
\* fewer than the limit are in progress
can_dispatch(queued, running) ==
    queued > 0 /\ running < ConcurrencyLimit

\* the stream is given up at the first failed fetch
stream_done_fail_fast(queued, running, fetches) ==
    (queued = 0 /\ running = 0) \/ fetches.errs # << >>

\* .collect::<Vec<_>>().await resolves when the stream is exhausted and no
\* future is left in the buffer
stream_done(queued, running, fetches) ==
    queued = 0 /\ running = 0

NoFetches == [oks |-> {}, errs |-> << >>]

\* the bytes stored under the key (row, column, zoom)
push_result_swapped_key(fetches, tile, r) ==
    IF r.ok
    THEN [fetches EXCEPT !.oks = @ \cup {<< << tile[2], tile[1], tile[3] >>, r.val >>}]
    ELSE [fetches EXCEPT !.errs = Append(@, r.err)]

\* one more result pushed to the collected Vec.  The Ok entries are kept as
\* a set and the Err entries in completion order: the scan below reads
\* nothing else of the Vec's order.
push_result(fetches, tile, r) ==
    IF r.ok
    THEN [fetches EXCEPT !.oks = @ \cup {<< tile, r.val >>}]
    ELSE [fetches EXCEPT !.errs = Append(@, r.err)]

\* the scan skipping the failed fetches
scan_results_skip_errors(fetches) ==
    Ok([k \in {e[1] : e \in fetches.oks} |->
            (CHOOSE e \in fetches.oks : e[1] = k)[2]])

\* the scan keeping the last error it meets
scan_results_last_error(fetches) ==
    IF fetches.errs # << >>
    THEN Err(fetches.errs[Len(fetches.errs)])
    ELSE Ok([k \in {e[1] : e \in fetches.oks} |->
                (CHOOSE e \in fetches.oks : e[1] = k)[2]])

\* the `for tile_result in tile_fetches` loop and the function's result
scan_results(fetches) ==
    IF fetches.errs # << >>
    THEN Err(Head(fetches.errs))
    ELSE Ok([k \in {e[1] : e \in fetches.oks} |->
                (CHOOSE e \in fetches.oks : e[1] = k)[2]])

----------------------------------------------------------------------------
(* fetch_image *)

\* coordinates::lat_long_to_tile_coords: the centre's tile-space position at
\* zoom z.  The centre of a box is kept in tile space at the box's zoom.
lat_long_to_tile_coords(center, z) == [x |-> center.x, y |-> center.y, z |-> z]

\* TileBox::outer_top_left: the floor-rounded top-left tile index
outer_top_left(tb) == << floor(tb.top_left.x), floor(tb.top_left.y) >>

\* the columns counted from the keys' rows
num_tiles_x_from_rows(tiles) == Cardinality({k[2] : k \in DOMAIN tiles})

\* the distinct columns and rows of the map's keys, and the canvas size
num_tiles_x(tiles) == Cardinality({k[1] : k \in DOMAIN tiles})
num_tiles_y(tiles) == Cardinality({k[2] : k \in DOMAIN tiles})
img_width(tiles) == num_tiles_x(tiles) * tile_size
img_height(tiles) == num_tiles_y(tiles) * tile_size

\* image::load_from_memory on the bytes of a tile: whether they decode, and
\* the width (and height) in pixels of the image they decode to
decodes(enc) == enc \in {"png256", "png512"}
decoded_size(enc) == IF enc = "png512" THEN 512 ELSE 256

\* every tile copied to the canvas origin
draw_tile_at_origin(tb, tiles, k, checks) ==
    IF ~decodes(tiles[k].enc)
    THEN [at |-> "I can load my tiles"]
    ELSE [at |-> "drawn", x |-> 0, y |-> 0, size |-> decoded_size(tiles[k].enc)]

\* what drawing one tile does: "drawn" with its offsets and the size of the
\* decoded tile, or the panic it raises.  checks: the build panics on u32
\* overflow instead of wrapping.  copy_from fails when the tile does not fit
\* into the canvas at its offsets.
draw_tile(tb, tiles, k, checks) ==
    LET col0 == first_col(tb.tile_box.top_left)
        row0 == first_row(tb.tile_box.top_left)
        x_offset == wrapping_sub(k[1], col0) * tile_size
        y_offset == wrapping_sub(k[2], row0) * tile_size
        size == decoded_size(tiles[k].enc)
    IN  IF ~decodes(tiles[k].enc)
        THEN [at |-> "I can load my tiles"]
        ELSE IF checks /\ (k[1] < col0 \/ k[2] < row0)
        THEN [at |-> "attempt to subtract with overflow"]
        ELSE IF u32_lt(img_width(tiles), x_offset + size)
                \/ u32_lt(img_height(tiles), y_offset + size)
        THEN [at |-> "copy_from(..).unwrap()"]
        ELSE [at |-> "drawn", x |-> x_offset, y |-> y_offset, size |-> size]

\* the pictures a canvas of the given cells can show when, per cell, any of
\* the tiles in last[c] may have been copied there last
RECURSIVE canvas_cells(_, _)
canvas_cells(cells, last) ==
    IF cells = {} THEN {<< >>}
    ELSE LET c == CHOOSE d \in cells : TRUE
         IN  {(c :> k) @@ f : k \in last[c], f \in canvas_cells(cells \ {c}, last)}

\* full_image after the drawing loop: its size and, per 256-pixel cell, the
\* tile that shows there (<< >>: none).  The map is iterated in no fixed
\* order and a later copy overwrites an earlier one, so of the tiles copied
\* to one cell any may be the one that shows: the set of possible canvases.
draw_tiles(tb, tiles, checks) ==
    LET cells == (0..(num_tiles_x(tiles) - 1)) \X (0..(num_tiles_y(tiles) - 1))
        last == [c \in cells |->
                    LET here == {k \in DOMAIN tiles :
                                    LET d == draw_tile(tb, tiles, k, checks)
                                    IN  /\ d.at = "drawn"
                                        /\ d.x <= c[1] * tile_size
                                        /\ c[1] * tile_size < d.x + d.size
                                        /\ d.y <= c[2] * tile_size
                                        /\ c[2] * tile_size < d.y + d.size}
                    IN  IF here = {} THEN {<< >>} ELSE here]
    IN  {[width |-> img_width(tiles), height |-> img_height(tiles), cells |-> f] :
            f \in canvas_cells(cells, last)}

\* center_x_px, center_y_px
center_px(tb) ==
    LET center_pos_abs ==
            lat_long_to_tile_coords(tb.center, tb.tile_box.bottom_right.z)
        otl == outer_top_left(tb.tile_box)
    IN  << px_as_u32(center_pos_abs.x - otl[1] * Frac),
           px_as_u32(center_pos_abs.y - otl[2] * Frac) >>

\* imageops::crop_dimms, which crop_imm applies: the rectangle is clamped to
\* the image
crop_dimms(iwidth, iheight, x, y, width, height) ==
    LET cx == u32_min(x, iwidth)
        cy == u32_min(y, iheight)
    IN  [x |-> cx, y |-> cy,
         width |-> u32_min(width, iwidth - cx),
         height |-> u32_min(height, iheight - cy)]

\* the crop and the PNG encoding, for a build that panics on overflow
\* (checks) or wraps
crop_and_encode(tb, image, checks) ==
    LET c == center_px(tb)
        half_w == tb.inner_size_px[1] \div 2
        half_h == tb.inner_size_px[2] \div 2
        offset_left == wrapping_sub(c[1], half_w)
        offset_top == wrapping_sub(c[2], half_h)
        r == crop_dimms(image.width, image.height, offset_left, offset_top,
                        tb.inner_size_px[1], tb.inner_size_px[2])
    IN  IF checks /\ (c[1] < half_w \/ c[2] < half_h)
        THEN [kind |-> "Panic", step |-> "crop",
              at |-> "attempt to subtract with overflow"]
        ELSE IF r.width = 0 \/ r.height = 0
        THEN [kind |-> "Panic", step |-> "crop", at |-> "I can write a PNG"]
        ELSE [kind |-> "Ok", width |-> r.width, height |-> r.height,
              x |-> r.x, y |-> r.y]

\* fetch_image after fetch_tile_box has returned res: the ways it can end in
\* a build that panics on overflow (checks) or wraps.  The map is iterated
\* in no fixed order, so any of the tiles that cannot be drawn may be the
\* one that panics.
fetch_image_tail(tb, res, checks) ==
    IF ~res.ok
    THEN {[image |-> None, result |-> [kind |-> "Err", err |-> res.err]]}
    ELSE LET tiles == res.val
             panics == {draw_tile(tb, tiles, k, checks).at : k \in DOMAIN tiles}
                       \ {"drawn"}
         IN  IF panics # {}
             THEN {[image |-> None,
                    result |-> [kind |-> "Panic", step |-> "draw", at |-> a]] :
                        a \in panics}
             ELSE {[image |-> image, result |-> crop_and_encode(tb, image, checks)] :
                        image \in draw_tiles(tb, tiles, checks)}

----------------------------------------------------------------------------
(* The call fetch_image(tileset, &tile_box) as a state machine *)

url_of(k) == tile_url(tileset, k[1], k[2], k[3])

queued == Len(tile_coords) - next_idx
running == Cardinality(in_flight)

\* lines 112-118: the tiles of the rectangle are enumerated
Enumerate ==
    /\ pc = "enumerate"
    /\ tile_coords' = enumerate_tiles(tile_box.tile_box.top_left,
                                      tile_box.tile_box.bottom_right)
    /\ pc' = "stream"
    /\ UNCHANGED << calls, tileset, tile_box, upstream, next_idx, in_flight, fetch_log,
                    answered, tile_fetches, box_result, full_image, image_result >>

\* the stream hands the next tile's future to the buffer: its request is sent
Dispatch ==
    /\ pc = "stream"
    /\ can_dispatch(queued, running)
    /\ LET tile == tile_coords[next_idx + 1]
       IN  /\ next_idx' = next_idx + 1
           /\ in_flight' = in_flight \cup {tile}
           /\ fetch_log' = Append(fetch_log, url_of(tile))
    /\ UNCHANGED << calls, tileset, tile_box, upstream, pc, tile_coords, answered,
                    tile_fetches, box_result, full_image, image_result >>

\* one fetch_tile future in the buffer resolves and its result is collected
Complete ==
    /\ pc = "stream"
    /\ ~can_dispatch(queued, running)
    /\ \E tile \in in_flight, resp \in upstream.responses :
          LET r == fetch_tile(tileset, tile[1], tile[2], tile[3], resp)
          IN  /\ r.ok \/ Len(tile_fetches.errs) < upstream.failures
              /\ in_flight' = in_flight \ {tile}
              /\ answered' = (tile :> resp) @@ answered
              /\ tile_fetches' = push_result(tile_fetches, tile, r)
    /\ UNCHANGED << calls, tileset, tile_box, upstream, pc, tile_coords, next_idx,
                    fetch_log, box_result, full_image, image_result >>

\* lines 136-155: the collected results are scanned, fetch_tile_box returns
ReturnBox ==
    /\ pc = "stream"
    /\ stream_done(queued, running, tile_fetches)
    /\ box_result' = scan_results(tile_fetches)
    /\ pc' = "fetch_image"
    /\ UNCHANGED << calls, tileset, tile_box, upstream, tile_coords, next_idx, in_flight,
                    fetch_log, answered, tile_fetches, full_image, image_result >>

\* lines 182-264: the error is passed on, or the mosaic is built and cropped
FinishImage ==
    /\ pc = "fetch_image"
    /\ \E checks \in BOOLEAN :
          \E out \in fetch_image_tail(tile_box, box_result, checks) :
             /\ full_image' = out.image
             /\ image_result' = out.result
    /\ pc' = "done"
    /\ UNCHANGED << calls, tileset, tile_box, upstream, tile_coords, next_idx, in_flight,
                    fetch_log, answered, tile_fetches, box_result >>

Next == Enumerate \/ Dispatch \/ Complete \/ ReturnBox \/ FinishImage

\* the results of the previous call kept for the next one
kept_results(previous) == previous

\* the results a call starts from, whatever the previous call collected:
\* tile_coords, the collected Vec and tile_map are locals created in the
\* call, and fetch_tile builds a new Client for every request
fresh_results(previous) == NoFetches

\* fetch_image has ended, with an image, an error or a panic, and is called
\* again on the same box: nothing but the arguments is handed over
CallAgain ==
    /\ pc = "done"
    /\ Len(calls) < MaxCalls - 1
    /\ calls' = Append(calls, [sent |-> Len(fetch_log), result |-> image_result])
    /\ pc' = "enumerate"
    /\ tile_coords' = << >>
    /\ next_idx' = 0
    /\ in_flight' = {}
    /\ fetch_log' = << >>
    /\ answered' = << >>
    /\ tile_fetches' = fresh_results(tile_fetches)
    /\ box_result' = None
    /\ full_image' = None
    /\ image_result' = [kind |-> "Pending"]
    /\ UNCHANGED << tileset, tile_box, upstream >>

NextTwice == Next \/ CallAgain

----------------------------------------------------------------------------
(* The calls considered *)

Coord(x, y, z) == [x |-> x, y |-> y, z |-> z]

ConstrainedTileBox(tl, br, center, size) ==
    [tile_box |-> [top_left |-> tl, bottom_right |-> br],
     center |-> center, inner_size_px |-> size]

\* the state when fetch_image is entered for box tb
Entered(ts, tb, up) ==
    /\ tileset = ts
    /\ tile_box = tb
    /\ upstream = up
    /\ pc = "enumerate"
    /\ tile_coords = << >>
    /\ next_idx = 0
    /\ in_flight = {}
    /\ fetch_log = << >>
    /\ answered = << >>
    /\ tile_fetches = NoFetches
    /\ box_result = None
    /\ full_image = None
    /\ image_result = [kind |-> "Pending"]
    /\ calls = << >>

\* rectangles with corners on the 1/Frac grid of tiles 0..n, top-left <=
\* bottom-right, covering at most MaxBatch tiles, centre in the middle, a
\* 256 x 256 image asked for
Rects(n, z) ==
    {ConstrainedTileBox(Coord(q[1], q[3], z), Coord(q[2], q[4], z),
                        [x |-> (q[1] + q[2]) \div 2, y |-> (q[3] + q[4]) \div 2],
                        << tile_size, tile_size >>) :
        q \in {r \in (0..(n * Frac)) \X (0..(n * Frac)) \X (0..(n * Frac)) \X (0..(n * Frac)) :
                /\ r[1] <= r[2] /\ r[3] <= r[4]
                /\ (ceil(r[2]) - floor(r[1]) + 1) * (ceil(r[4]) - floor(r[3]) + 1)
                        <= MaxBatch}}

\* one column, rows 0..BigSpan: more tiles than the buffer holds
LongBox ==
    ConstrainedTileBox(Coord(Frac, 0, 4), Coord(Frac, BigSpan * Frac, 4),
                       [x |-> Frac, y |-> (BigSpan * Frac) \div 2],
                       << tile_size, tile_size >>)

Upstream(responses, failures) == [responses |-> responses, failures |-> failures]

\* fetch_tile_box on small rectangles, up to MaxFailures fetches failing
Init ==
    \E tb \in Rects(MaxTile, 2) :
        Entered("Osm", tb, Upstream({GoodResponse, NotFound, HtmlPage}, MaxFailures))

Spec == Init /\ [][Next]_vars

\* fetch_tile_box on the long rectangle: the buffer fills up
InitLong ==
    Entered("Osm", LongBox, Upstream({GoodResponse, NotFound}, LongFailures))

SpecLong == InitLong /\ [][Next]_vars

\* every started fetch eventually completes and the
\* task is polled whenever it can make a step: the tiles are enumerated,
\* the stream hands out a queued tile once the buffer has room, the collect
\* resolves once the stream is exhausted, fetch_image goes on once
\* fetch_tile_box has returned
Fairness ==
    /\ WF_vars(Enumerate)
    /\ WF_vars(Dispatch)
    /\ WF_vars(Complete)
    /\ WF_vars(ReturnBox)
    /\ WF_vars(FinishImage)

\* the long rectangle, at most one of its fetches failing
InitLongFair ==
    Entered("Osm", LongBox, Upstream({GoodResponse, NotFound}, 1))

SpecLongFair == InitLongFair /\ [][Next]_vars /\ Fairness

\* fetch_image called MaxCalls times in a row on a rectangle of one or two
\* tiles, at most one fetch of a call failing
InitTwice ==
    \E tb \in Rects(MaxTile, 2) :
        /\ Len(enumerate_tiles(tb.tile_box.top_left, tb.tile_box.bottom_right)) <= 2
        /\ Entered("Osm", tb, Upstream({GoodResponse, NotFound}, 1))

SpecTwice == InitTwice /\ [][NextTwice]_vars

\* one-tile rectangles (both corners on one grid point) against a server
\* that may answer anything: fetch_tile on all its inputs
InitTile ==
    \E ts \in TileSets, x \in 0..MaxTile, y \in 0..MaxTile, z \in 1..2 :
        Entered(ts,
                ConstrainedTileBox(Coord(x * Frac, y * Frac, z), Coord(x * Frac, y * Frac, z),
                                   [x |-> x * Frac, y |-> y * Frac], << 1, 1 >>),
                Upstream(AllResponses, 1))

SpecTile == InitTile /\ [][Next]_vars

\* image sizes asked for
Sizes == {<< 256, 256 >>, << 600, 256 >>, << 256, 600 >>}

\* the coordinates of one axis: top-left <= centre <= bottom-right
Axis(n) ==
    {a \in (0..(n * Frac)) \X (0..(n * Frac)) \X (0..(n * Frac)) :
        a[1] <= a[2] /\ a[2] <= a[3]}

\* rectangles with the centre anywhere inside, wide along one axis, every
\* fetch succeeding: the mosaic and the crop
ImageAxes ==
    (Axis(MaxImageTile) \X Axis(1)) \cup (Axis(1) \X Axis(MaxImageTile))

InitImage ==
    \E a \in ImageAxes, size \in Sizes :
        Entered("Osm",
                ConstrainedTileBox(Coord(a[1][1], a[2][1], 2), Coord(a[1][3], a[2][3], 2),
                                   [x |-> a[1][2], y |-> a[2][2]], size),
                Upstream({GoodResponse}, 0))

SpecImage == InitImage /\ [][Next]_vars

----------------------------------------------------------------------------
(* Properties *)

Returned == pc \in {"fetch_image", "done"}

\* fetches whose result has been collected
completed == Cardinality(tile_fetches.oks) + Len(tile_fetches.errs)

\* the inclusive tile range of the rectangle
x0 == tile_box.tile_box.top_left.x \div Frac
x1 == -((-tile_box.tile_box.bottom_right.x) \div Frac)
y0 == tile_box.tile_box.top_left.y \div Frac
y1 == -((-tile_box.tile_box.bottom_right.y) \div Frac)
zoom == tile_box.tile_box.top_left.z

\* the URL of tile (x, y) at zoom z of the OpenStreetMap tile set
OsmUrl(x, y, z) ==
    << "https://tile.openstreetmap.org/", ToString(z), "/", ToString(x), "/",
       ToString(y), ".png" >>

\* the tiles whose request received a response other than a readable
\* 200 image/png
failed_tiles ==
    {t \in DOMAIN answered :
        ~(/\ answered[t].sent
          /\ answered[t].status = 200
          /\ answered[t].content_type = "image/png"
          /\ answered[t].body # "unreadable")}

(* C1: at every moment of a fetch_tile_box call the number of tile fetches  *)
(* started and not yet completed is at most 10.                             *)
C1_AtMostTenInFlight == Len(fetch_log) - completed <= 10

\* ten fetches are in flight while a further tile waits in the stream
C1_Witness == Len(fetch_log) - completed = 10 /\ queued > 0

(* C2: if at least one tile fetch of the batch failed, fetch_tile_box       *)
(* returns an error, never a map, and fetch_image returns that same error   *)
(* and produces no image.                                                   *)
C2_AllOrNothing ==
    (Returned /\ failed_tiles # {}) =>
        /\ ~box_result.ok
        /\ DOMAIN box_result = {"ok", "err"}
        /\ pc = "done" =>
              /\ image_result.kind = "Err"
              /\ image_result.err = box_result.err
              /\ full_image = None

\* a batch with a failed and a successful fetch has ended in an error
C2_Witness ==
    /\ pc = "done"
    /\ failed_tiles # {}
    /\ tile_fetches.oks # {}
    /\ image_result.kind = "Err"

(* C3: one fetch_tile_box call requests every tile of the inclusive range   *)
(* x0..x1, y0..y1 exactly once and no other: no request is repeated, every  *)
(* request is for a tile of the range at the rectangle's zoom, and when the *)
(* call returns (x1-x0+1)*(y1-y0+1) requests have been sent, whether or not *)
(* some fetches failed.                                                     *)
C3_ExactlyTheRangeOnce ==
    /\ \A i, j \in 1..Len(fetch_log) : fetch_log[i] = fetch_log[j] => i = j
    /\ \A i \in 1..Len(fetch_log) :
          \E x \in x0..x1, y \in y0..y1 : fetch_log[i] = OsmUrl(x, y, zoom)
    /\ Returned =>
          /\ Len(fetch_log) = (x1 - x0 + 1) * (y1 - y0 + 1)
          /\ \A x \in x0..x1, y \in y0..y1 :
                \E i \in 1..Len(fetch_log) : fetch_log[i] = OsmUrl(x, y, zoom)

\* a 2 x 2 range has been fetched with a failure among its four requests
C3_Witness ==
    /\ Returned
    /\ x1 = x0 + 1 /\ y1 = y0 + 1
    /\ Len(fetch_log) = 4
    /\ failed_tiles # {}

\* both corners of the rectangle lie in the same tile cell
same_cell ==
    /\ tile_box.tile_box.top_left.x \div Frac = tile_box.tile_box.bottom_right.x \div Frac
    /\ tile_box.tile_box.top_left.y \div Frac = tile_box.tile_box.bottom_right.y \div Frac

(* C4 as stated: for a rectangle with both corners inside the same tile     *)
(* cell fetch_tile_box issues exactly one fetch.                            *)
C4_SameCellOneFetch == (Returned /\ same_cell) => Len(fetch_log) = 1

(* C4 amended: for a rectangle with both corners inside the same tile cell  *)
(* fetch_tile_box issues one fetch per axis, and a second one on each axis  *)
(* where bottom-right is not a whole tile index (the range ends at          *)
(* ceil(bottom-right)): exactly one fetch when bottom-right is a grid       *)
(* point, otherwise 2 or 4.                                                 *)
C4_SameCellFetches ==
    (Returned /\ same_cell) =>
        Len(fetch_log) =
            (IF tile_box.tile_box.bottom_right.x % Frac = 0 THEN 1 ELSE 2)
            * (IF tile_box.tile_box.bottom_right.y % Frac = 0 THEN 1 ELSE 2)

\* a rectangle inside one cell was fetched with four requests
C4_Witness ==
    /\ Returned
    /\ same_cell
    /\ tile_box.tile_box.bottom_right.x % Frac # 0
    /\ tile_box.tile_box.bottom_right.y % Frac # 0
    /\ Len(fetch_log) = 4

(* C5: fetch_tile_box returns, with a map or with an error, only after      *)
(* every enumerated tile's fetch has been started and has completed: a      *)
(* failed fetch neither cancels a fetch in flight nor keeps a queued tile   *)
(* from being dispatched.                                                   *)
C5_ReturnsAfterAllFetches ==
    Returned =>
        /\ Len(fetch_log) = (x1 - x0 + 1) * (y1 - y0 + 1)
        /\ completed = Len(fetch_log)
        /\ \A x \in x0..x1, y \in y0..y1 : << x, y, zoom >> \in DOMAIN answered

\* the long batch returned an error after all its fetches, more than the
\* buffer holds, had completed
C5_Witness ==
    /\ Returned
    /\ ~box_result.ok
    /\ Len(tile_coords) > ConcurrencyLimit
    /\ Cardinality(tile_fetches.oks) = Len(tile_coords) - 1

\* the bytes fetch_tile returned for tile t, and the error it returned
bytes_of(t) == {e[2] : e \in {o \in tile_fetches.oks : o[1] = t}}
error_of(t) ==
    {tile_fetches.errs[i] : i \in
        {j \in 1..Len(tile_fetches.errs) : tile_fetches.errs[j].url = url_of(t)}}

\* the request was sent, answered 200 OK and declared exactly image/png
accepted(resp) ==
    resp.sent /\ resp.status = 200 /\ resp.content_type = "image/png"

(* C6: fetch_tile returns bytes only if the request was sent, the status is *)
(* 200 OK and the Content-Type header is exactly "image/png"; for every     *)
(* other transport outcome, status and content type, a missing header       *)
(* included, it returns an error and no bytes.                              *)
C6_BytesOnlyFor200Png ==
    \A t \in DOMAIN answered :
        /\ bytes_of(t) # {} => accepted(answered[t])
        /\ ~accepted(answered[t]) => (bytes_of(t) = {} /\ error_of(t) # {})
        /\ bytes_of(t) = {} \/ error_of(t) = {}

\* a 200 response declaring "image/png; charset=utf-8" was turned down
C6_Witness ==
    \E t \in DOMAIN answered :
        /\ answered[t].status = 200
        /\ answered[t].content_type = "image/png; charset=utf-8"
        /\ bytes_of(t) = {}
        /\ error_of(t) # {}

\* the messages of the three causes the claim names
SendMsg == "Failed to send request to"
StatusMsg == "Request failed with status"
ContentTypeMsg == "Unexpected content type from"

(* C7 as stated: every failure of fetch_tile is one of three causes: the    *)
(* network error (transport failure), the status error (non-200) or the     *)
(* content-type error (200, not image/png).                                 *)
C7_ThreeCauses ==
    \A i \in 1..Len(tile_fetches.errs) :
        tile_fetches.errs[i].msg \in {SendMsg, StatusMsg, ContentTypeMsg}

(* C7 amended: every failure of fetch_tile is exactly one of four causes,   *)
(* told apart by their messages: a request that could not be sent yields    *)
(* the send error, a non-200 status the status error whatever the content   *)
(* type, a 200 response whose content type is not image/png (text/html, or  *)
(* absent) the content-type error and never the status error, and a 200     *)
(* image/png response whose body cannot be read the body-read error.        *)
C7_FourCauses ==
    \A t \in DOMAIN answered :
        LET resp == answered[t]
            msgs == {e.msg : e \in error_of(t)}
        IN  /\ ~resp.sent => msgs = {SendMsg}
            /\ (resp.sent /\ resp.status # 200) => msgs = {StatusMsg}
            /\ (resp.sent /\ resp.status = 200 /\ resp.content_type # "image/png")
                    => msgs = {ContentTypeMsg}
            /\ (accepted(resp) /\ resp.body = "unreadable")
                    => msgs = {"Failed to read response body from"}
            /\ (accepted(resp) /\ resp.body # "unreadable") => msgs = {}
            /\ \A e \in error_of(t) : e.url = url_of(t)

\* a 404 that declared image/png was reported as a status error
C7_Witness ==
    \E t \in DOMAIN answered :
        /\ answered[t].status = 404
        /\ answered[t].content_type = "image/png"
        /\ {e.msg : e \in error_of(t)} = {StatusMsg}

(* C8: if exactly one enumerated tile's fetch is answered 404 and every     *)
(* other fetch of the batch succeeds, fetch_tile_box returns that tile's    *)
(* status error, carrying the URL made of its zoom, column and row,         *)
(* wherever the tile stands in the enumeration and in whatever order the    *)
(* fetches complete.                                                        *)
C8_Single404Reported ==
    \A t \in DOMAIN answered :
        (/\ Returned
         /\ answered[t] = NotFound
         /\ \A u \in DOMAIN answered \ {t} : answered[u] = GoodResponse)
        => /\ ~box_result.ok
           /\ box_result.err.msg = StatusMsg
           /\ box_result.err.detail = "404"
           /\ box_result.err.url = OsmUrl(t[1], t[2], zoom)

\* a batch of four returned the 404 of its third tile, whose column and row
\* differ
C8_Witness ==
    /\ Returned
    /\ Len(tile_coords) = 4
    /\ tile_coords[3][1] # tile_coords[3][2]
    /\ answered[tile_coords[3]] = NotFound
    /\ \A i \in {1, 2, 4} : answered[tile_coords[i]] = GoodResponse
    /\ ~box_result.ok

\* the crop origin centerPx - requestedSize / 2, as a signed number
crop_origin ==
    << ((tile_box.center.x - x0 * Frac) * 256) \div Frac - tile_box.inner_size_px[1] \div 2,
       ((tile_box.center.y - y0 * Frac) * 256) \div Frac - tile_box.inner_size_px[2] \div 2 >>

\* the canvas of the rectangle's tile range
canvas_size == << (x1 - x0 + 1) * 256, (y1 - y0 + 1) * 256 >>

(* C9: whenever fetch_image returns an image, its pixel dimensions are      *)
(* exactly the requested inner_size_px: the crop is never shortened at the  *)
(* canvas edge.                                                             *)
C9_ArtifactHasRequestedSize ==
    (pc = "done" /\ image_result.kind = "Ok") =>
        /\ image_result.width = tile_box.inner_size_px[1]
        /\ image_result.height = tile_box.inner_size_px[2]

(* C10: when the crop origin centerPx - requestedSize / 2 is negative or    *)
(* lies beyond the canvas on either axis, fetch_image returns an error (the *)
(* geometry error): it neither panics on the subtraction nor goes on with a *)
(* wrapped origin.                                                          *)
C10_BadOriginIsAnError ==
    (/\ pc = "done"
     /\ box_result.ok
     /\ \/ crop_origin[1] < 0 \/ crop_origin[2] < 0
        \/ crop_origin[1] > canvas_size[1] \/ crop_origin[2] > canvas_size[2])
    => image_result.kind = "Err"

(* C11: if the bytes of a tile of the batch result cannot be decoded,       *)
(* fetch_image ends with an error returned to the caller through its        *)
(* Result and produces no image; it does not panic.                         *)
C11_DecodeFailureIsAnError ==
    (/\ pc = "done"
     /\ box_result.ok
     /\ \E k \in DOMAIN box_result.val : ~decodes(box_result.val[k].enc))
    => image_result.kind = "Err"

\* fetch_image got past the drawing loop: the canvas exists
canvas_built ==
    /\ pc = "done"
    /\ box_result.ok
    /\ ~(image_result.kind = "Panic" /\ image_result.step = "draw")

\* the canvas of the rectangle: cell (i, j) shows tile (x0 + i, y0 + j)
canvas_of_rectangle ==
    [c \in (0..(x1 - x0)) \X (0..(y1 - y0)) |-> << x0 + c[1], y0 + c[2], zoom >>]

(* C12: the canvas before cropping is the same for every completion order   *)
(* of the tile fetches and every iteration order of the tile map: the cell  *)
(* a tile shows in is given by its column and row alone, so the canvas is a *)
(* function of the rectangle.                                               *)
C12_CanvasIndependentOfOrder ==
    canvas_built =>
        /\ full_image.cells = canvas_of_rectangle
        /\ \A c \in DOMAIN full_image.cells :
              box_result.val[full_image.cells[c]].from
                    = OsmUrl(x0 + c[1], y0 + c[2], zoom)

\* a canvas of 2 x 2 tiles has been assembled
C12_Witness ==
    /\ canvas_built
    /\ Len(tile_coords) = 4
    /\ x1 = x0 + 1 /\ y1 = y0 + 1
    /\ full_image.cells[<< 1, 0 >>] = << x1, y0, zoom >>
    /\ full_image.cells[<< 0, 1 >>] = << x0, y1, zoom >>

\* the tile indices of the rectangle's inclusive range
enumerated_indices == {<< x, y, zoom >> : x \in x0..x1, y \in y0..y1}

(* C13: when fetch_tile_box succeeds, the key set of the returned map is    *)
(* exactly the set of enumerated tile indices, none missing and none extra, *)
(* each key is mapped to the bytes its own fetch returned, and every key's  *)
(* zoom is the rectangle's zoom.                                            *)
C13_MapIsTheEnumeratedSet ==
    (Returned /\ box_result.ok) =>
        /\ DOMAIN box_result.val = enumerated_indices
        /\ DOMAIN box_result.val = {tile_coords[i] : i \in 1..Len(tile_coords)}
        /\ \A k \in DOMAIN box_result.val :
              /\ k[3] = zoom
              /\ box_result.val[k].from = OsmUrl(k[1], k[2], k[3])
              /\ box_result.val[k].enc = answered[k].body

\* a map of four tiles has been returned
C13_Witness ==
    /\ Returned
    /\ box_result.ok
    /\ Cardinality(DOMAIN box_result.val) = 4
    /\ x1 = x0 + 1 /\ y1 = y0 + 1

(* C14: when every started tile fetch eventually completes, every           *)
(* enumerated tile, also one queued behind the 10-fetch limit, is           *)
(* eventually dispatched, and fetch_tile_box eventually returns.            *)
C14_EveryTileDispatchedAndReturns ==
    /\ (queued > 0 /\ running = ConcurrencyLimit) ~> (queued = 0)
    /\ <>Returned

\* the tile queued behind ten fetches in flight was dispatched after the
\* first of them had completed
C14_Witness ==
    /\ pc = "stream"
    /\ Len(tile_coords) > ConcurrencyLimit
    /\ next_idx = Len(tile_coords)
    /\ completed = 1
    /\ running = ConcurrencyLimit

\* the place of the tile with request URL u in the enumeration
enumeration_index(u) == CHOOSE i \in 1..Len(tile_coords) : url_of(tile_coords[i]) = u

(* C15: when several tile fetches of one batch fail, the error returned by  *)
(* fetch_tile_box is that of the failed fetch that completed first, the     *)
(* first failure of the collected results, whichever place its tile has in  *)
(* the enumeration.                                                         *)
C15_FirstCompletedFailureReturned ==
    (Returned /\ Len(tile_fetches.errs) >= 1) =>
        /\ ~box_result.ok
        /\ box_result.err = tile_fetches.errs[1]
        /\ pc = "done" => (image_result.kind = "Err" /\ image_result.err = tile_fetches.errs[1])

\* two fetches failed and the error returned is that of the tile enumerated
\* later, whose fetch completed first
C15_Witness ==
    /\ Returned
    /\ Len(tile_fetches.errs) = 2
    /\ box_result.err = tile_fetches.errs[1]
    /\ enumeration_index(tile_fetches.errs[1].url) > enumeration_index(tile_fetches.errs[2].url)

(* C16: for every map returned by a successful fetch_tile_box, the canvas   *)
(* fetch_image builds from the distinct columns and rows of the map's keys  *)
(* has exactly the size of the rectangle's enumerated span,                 *)
(* ((x1 - x0 + 1) * 256, (y1 - y0 + 1) * 256).                              *)
C16_CanvasSizeIsTheSpan ==
    (pc = "done" /\ box_result.ok) =>
        /\ img_width(box_result.val) = (x1 - x0 + 1) * 256
        /\ img_height(box_result.val) = (y1 - y0 + 1) * 256
        /\ canvas_built =>
              /\ full_image.width = (x1 - x0 + 1) * 256
              /\ full_image.height = (y1 - y0 + 1) * 256

\* a canvas of two columns and one row was built: 512 x 256
C16_Witness ==
    /\ canvas_built
    /\ x1 = x0 + 1 /\ y1 = y0
    /\ full_image.width = 512
    /\ full_image.height = 256

(* C17: for every tile of a map returned by fetch_tile_box whose bytes      *)
(* decode, the placement offset is computed without unsigned underflow, the *)
(* tile lies entirely inside the canvas, and the tiles occupy disjoint      *)
(* cells that together cover the canvas: the copy onto the canvas never     *)
(* fails.                                                                   *)
C17_EveryTileFitsItsCell ==
    (/\ pc = "done"
     /\ box_result.ok
     /\ \A k \in DOMAIN box_result.val : decodes(box_result.val[k].enc))
    => /\ \A k \in DOMAIN box_result.val : k[1] >= x0 /\ k[2] >= y0
       /\ canvas_built
       /\ \A c \in DOMAIN full_image.cells : full_image.cells[c] # << >>
       /\ \A c, d \in DOMAIN full_image.cells :
             full_image.cells[c] = full_image.cells[d] => c = d

\* top-left = bottom-right: a rectangle of no area
degenerate ==
    /\ tile_box.tile_box.top_left.x = tile_box.tile_box.bottom_right.x
    /\ tile_box.tile_box.top_left.y = tile_box.tile_box.bottom_right.y

(* C18: for a rectangle with top-left <= bottom-right on both axes the      *)
(* enumerated tile set is never empty: also a degenerate rectangle          *)
(* (top-left = bottom-right) enumerates at least one tile and at least one  *)
(* fetch is issued before fetch_tile_box returns.                           *)
C18_AtLeastOneTile ==
    (/\ tile_box.tile_box.top_left.x <= tile_box.tile_box.bottom_right.x
     /\ tile_box.tile_box.top_left.y <= tile_box.tile_box.bottom_right.y)
    => /\ pc # "enumerate" => Len(tile_coords) >= 1
       /\ Returned => (Len(fetch_log) >= 1 /\ DOMAIN answered # {})

\* a degenerate rectangle on a grid point was fetched with one request
C18_Witness ==
    /\ Returned
    /\ degenerate
    /\ tile_box.tile_box.top_left.x % Frac = 0
    /\ tile_box.tile_box.top_left.y % Frac = 0
    /\ Len(tile_coords) = 1
    /\ Len(fetch_log) = 1

(* C19: no tile bytes are carried from one call to the next: each of two    *)
(* successive calls on the same rectangle sends the full set of requests,   *)
(* and the later call's result is given by the responses to its own         *)
(* requests alone (a map of their bodies if all were accepted, otherwise    *)
(* the error of one of them), also when the earlier call failed.            *)
C19_NoCarryOver ==
    (Len(calls) >= 1 /\ Returned) =>
        /\ \A i \in 1..Len(calls) : calls[i].sent = (x1 - x0 + 1) * (y1 - y0 + 1)
        /\ Len(fetch_log) = (x1 - x0 + 1) * (y1 - y0 + 1)
        /\ \A x \in x0..x1, y \in y0..y1 :
              \E i \in 1..Len(fetch_log) : fetch_log[i] = OsmUrl(x, y, zoom)
        /\ completed = Len(fetch_log)
        /\ box_result.ok <=> failed_tiles = {}
        /\ box_result.ok =>
              /\ DOMAIN box_result.val = enumerated_indices
              /\ \A k \in DOMAIN box_result.val :
                    box_result.val[k].enc = answered[k].body
        /\ ~box_result.ok =>
              \E t \in failed_tiles :
                 /\ box_result.err.url = url_of(t)
                 /\ box_result.err.detail = ToString(answered[t].status)

\* the first call ended in an error and the second call, on two tiles, has
\* returned a map
C19_Witness ==
    /\ Len(calls) = 1
    /\ calls[1].result.kind = "Err"
    /\ Returned
    /\ box_result.ok
    /\ Len(fetch_log) = 2

====
